---- MODULE Spec2Model ----
(***************************************************************************)
(* The "minority wins" A/B round game of src/main.py (class MinorGame).    *)
(*                                                                         *)
(* The plugin keeps one GameState object in self.state.  Handlers are      *)
(* asyncio coroutines / async generators: a handler runs without           *)
(* interruption between two awaits and may be suspended at every           *)
(* `await self.send_group(...)` / `await self.send_private(...)`, where    *)
(* other handlers run.  A handler keeps its local `s` across a suspension, *)
(* while announce_game and _finish_game rebind self.state to a new object, *)
(* so the model keeps a heap of GameState objects, the id of the live one, *)
(* and for every suspended handler its position and the object its `s`     *)
(* names.  A send either returns or raises; only the private reminders are *)
(* wrapped in try/except (lines 168-171).                                  *)
(*                                                                         *)
(* Spec is the plugin from its construction on.  UnitSpec runs /register,  *)
(* /end_round and /end_game once on every GameState of a bounded set, for  *)
(* what register and _settle_round do as functions of the state.           *)
(***************************************************************************)
EXTENDS Integers, FiniteSets, Sequences, Bags, TLC

VARIABLES heap, live, tasks, ev

vars == <<heap, live, tasks, ev>>

(* ------------------------------- bounds -------------------------------- *)
MaxUser == 2        \* participants are 1..MaxUser
MaxGroup == 1       \* /announce_game is given a group number in 1..MaxGroup
MaxRoundArg == 2    \* /start_game is given the round count 0 or MaxRoundArg, or none
MaxRound == 3       \* no round is begun once round_index has reached MaxRound
MaxTasks == 2       \* handlers suspended at an await at the same time
MaxVoter == 3       \* registered participants of the states UnitSpec starts from
MaxScore == 1       \* scores of the states UnitSpec starts from

(* -------------------------- program constants -------------------------- *)
DefaultRounds == 5                  \* GameState.total_rounds default
None == -1                          \* Python None (group_id default, private event)
NoArg == -1                         \* /start_game without a leading all-digit word
DefaultTitle == "default_title"     \* GameState.title default
Titles == {"T"}                     \* the titles /announce_game is given

Users == 1..MaxUser
Groups == 1..MaxGroup
Channels == {None} \cup (0..(MaxGroup + 1))    \* event.get_group_id() of an event
RoundArgs == {NoArg, 0, MaxRoundArg}
Labels == {"A", "B"}

EmptyMap == [u \in {} |-> 0]

(* ------------------------------ GameState ------------------------------ *)
\* GameState(group_id=gid, title=title), every other field at its default
Fresh(gid, title) ==
    [group_id |-> gid, title |-> title, registered |-> {}, running |-> FALSE,
     round_index |-> 0, total_rounds |-> DefaultRounds, in_round |-> FALSE,
     choices |-> EmptyMap, scores |-> EmptyMap, overtime |-> FALSE]

\* is_group_event(event): gid is not None and gid != 0
IsGroupEvent(chan) == chan # None /\ chan # 0

\* is_private_event(event)
IsPrivateEvent(chan) == ~IsGroupEvent(chan)

\* Python truthiness of s.group_id: None and 0 are falsy
Bound(s) == s.group_id # None /\ s.group_id # 0

\* sum(1 for v in s.choices.values() if v == label)
Tally(choices, label) == Cardinality({u \in DOMAIN choices : choices[u] = label})

WinnerFlipped(a, b, round_index) ==
    IF a = b THEN (IF round_index % 2 = 1 THEN "B" ELSE "A")
    ELSE IF a < b THEN "A" ELSE "B"

\* _settle_round, lines 258-264
Winner(a, b, round_index) ==
    IF a = b THEN (IF round_index % 2 = 1 THEN "A" ELSE "B")
    ELSE IF a < b THEN "A" ELSE "B"

\* s.scores.get(uid, 0)
ScoreOf(scores, u) == IF u \in DOMAIN scores THEN scores[u] ELSE 0

CreditAllVoters(scores, choices, winner) ==
    [u \in DOMAIN scores \cup DOMAIN choices |->
        IF u \in DOMAIN choices THEN ScoreOf(scores, u) + 1 ELSE scores[u]]

CreditDouble(scores, choices, winner) ==
    LET winners == {u \in DOMAIN choices : choices[u] = winner}
    IN  [u \in DOMAIN scores \cup winners |->
            IF u \in winners THEN ScoreOf(scores, u) + 2 ELSE scores[u]]

\* _settle_round, lines 267-269: every uid whose choice is the winner gets +1
Credit(scores, choices, winner) ==
    LET winners == {u \in DOMAIN choices : choices[u] = winner}
    IN  [u \in DOMAIN scores \cup winners |->
            IF u \in winners THEN ScoreOf(scores, u) + 1 ELSE scores[u]]

\* the settlement summary handed to send_group (lines 272-279)
SettleMsg(s) ==
    LET a == Tally(s.choices, "A")
        b == Tally(s.choices, "B")
    IN  [a |-> a, b |-> b, winner |-> Winner(a, b, s.round_index)]

NoMsg == [a |-> 0, b |-> 0, winner |-> "-"]

SettleLeavesOpen(s) ==
    [s EXCEPT !.scores = Credit(s.scores, s.choices, SettleMsg(s).winner)]

\* _settle_round up to its await (lines 251-269)
SettleRound(s) ==
    [s EXCEPT !.in_round = FALSE,
              !.scores = Credit(s.scores, s.choices, SettleMsg(s).winner)]

\* _start_next_round up to its first await (lines 152-155)
BeginRound(s) ==
    [s EXCEPT !.round_index = @ + 1, !.in_round = TRUE, !.choices = EmptyMap]

\* _finish_game up to its await (lines 283-285)
FinishFlags(s) == [s EXCEPT !.running = FALSE, !.in_round = FALSE]

\* _leaders: the participants holding the maximum score
Leaders(s) ==
    IF DOMAIN s.scores = {} THEN {}
    ELSE {u \in DOMAIN s.scores : \A v \in DOMAIN s.scores : s.scores[v] <= s.scores[u]}

RegisterResetsScore(s, uid) ==
    [s EXCEPT !.registered = @ \cup {uid},
              !.scores = [u \in DOMAIN s.scores \cup {uid} |->
                             IF u = uid THEN 0 ELSE s.scores[u]]]

\* register, lines 118-119: s.registered.add(uid); s.scores.setdefault(uid, 0)
RegisterUser(s, uid) ==
    [s EXCEPT !.registered = @ \cup {uid},
              !.scores = [u \in DOMAIN s.scores \cup {uid} |-> ScoreOf(s.scores, u)]]

\* start_game, lines 140-146
StartFlags(s, arg) ==
    [s EXCEPT !.total_rounds = IF arg # NoArg THEN arg ELSE @,
              !.running = TRUE, !.round_index = 0, !.overtime = FALSE]

\* the body of _handle_choice (lines 191-206): the reply and the state it leaves
HandleChoice(s, uid, chan, choice) ==
    IF ~IsPrivateEvent(chan) THEN [reply |-> "none", state |-> s]
    ELSE IF ~s.running \/ ~s.in_round THEN [reply |-> "not_in_phase", state |-> s]
    ELSE IF uid \notin s.registered THEN [reply |-> "not_registered", state |-> s]
    ELSE [reply |-> "recorded",
          state |-> [s EXCEPT !.choices =
                        [u \in DOMAIN s.choices \cup {uid} |->
                            IF u = uid THEN choice ELSE s.choices[u]]]]

\* end_round, lines 219-236: what follows the settlement.  `s` is the handler's
\* local (possibly no longer self.state), `cur` is self.state, read by _leaders
Continuation(s, cur) ==
    IF ~s.overtime /\ s.round_index >= s.total_rounds
    THEN (IF Cardinality(Leaders(cur)) >= 2 THEN "overtime" ELSE "finish")
    ELSE IF s.overtime
    THEN (IF Cardinality(Leaders(cur)) >= 2 THEN "begin" ELSE "finish")
    ELSE "begin"

(* ------------------------- handlers in flight -------------------------- *)
\* kind: the command; pc: the await the handler is suspended at; s: the heap
\* id of the local `s` it will still read (0: none); todo, n: the reminder loop
\* over s.registered (uids left, size of the set when the loop began);
\* settled: how many times the handler has run _settle_round
Idle == [kind |-> "idle", pc |-> "idle", s |-> 0, todo |-> {}, n |-> 0, settled |-> 0]

Handler(kind) == [Idle EXCEPT !.kind = kind]

\* the suspended handlers are a bag: two handlers may be at the same place
InFlight == BagToSet(tasks)

HasFreeSlot == BagCardinality(tasks) < MaxTasks

Spawn(me) == tasks (+) SetToBag({me})

Retire(me) == tasks (-) SetToBag({me})

Move(me, mine) == (tasks (-) SetToBag({me})) (+) SetToBag({mine})

Refs(ts) == {r.s : r \in BagToSet(ts)} \ {0}

\* an object that is no longer self.state keeps only the fields the handlers
\* naming it will still read: overtime, round_index, total_rounds for
\* end_round's lines 219-236, registered for the reminder loop, group_id and
\* title for _finish_game's line 298
Forget(x, pcs) ==
    LET fin == "send_final" \in pcs
        dec == "send_settle" \in pcs
        rem == pcs \cap {"send_prompt", "send_reminder"} # {}
    IN  [Fresh(IF fin THEN x.group_id ELSE None, IF fin THEN x.title ELSE DefaultTitle)
            EXCEPT !.registered = IF rem THEN x.registered ELSE {},
                   !.round_index = IF dec THEN x.round_index ELSE 0,
                   !.total_rounds = IF dec THEN x.total_rounds ELSE DefaultRounds,
                   !.overtime = IF dec THEN x.overtime ELSE FALSE]

\* the objects still reachable: self.state and the suspended handlers' locals
Collect(h, l, ts) ==
    [o \in (DOMAIN h) \cap (Refs(ts) \cup {l}) |->
        IF o = l THEN h[o]
        ELSE Forget(h[o], {r.pc : r \in {q \in BagToSet(ts) : q.s = o}})]

\* an id no suspended handler names
NewId(ts) == CHOOSE o \in 1..(MaxTasks + 1) : o \notin Refs(ts) /\
                \A p \in 1..(MaxTasks + 1) : p \notin Refs(ts) => o <= p

\* a GameState-shaped value that is no GameState
NoState == [Fresh(None, DefaultTitle) EXCEPT !.round_index = -1]

\* ev: the step just taken: the command, the await it resumed from ("check": it
\* began), what came of it (a reply, "raised", ...), the sender, whether the
\* handler ended with this step, how many settlements the handler has run,
\* self.state before the step (kept for register and the settlements), and
\* the settlement summary composed
Event(kind, at, res, uid, last, task, pre, msg) ==
    [kind |-> kind, at |-> at, res |-> res, uid |-> uid, last |-> last,
     settled |-> task.settled, pre |-> pre, msg |-> msg]

Step(h, l, ts, e) ==
    /\ heap' = Collect(h, l, ts)
    /\ live' = l
    /\ tasks' = ts
    /\ ev' = e

\* a handler that answers, or raises, without touching the state
Reply(kind, res) ==
    Step(heap, live, tasks, Event(kind, "check", res, 0, TRUE, Handler(kind), NoState, NoMsg))

\* a suspended handler ends: its send raised, or nothing was left to do
End(me, res) ==
    Step(heap, live, Retire(me), Event(me.kind, me.pc, res, 0, TRUE, me, NoState, NoMsg))

\* self.state = GameState(group_id=gid, title=title) with handlers ts left
Rebind(ts, gid, title, e) ==
    LET o == NewId(ts)
    IN  Step([p \in Refs(ts) \cup {o} |-> IF p = o THEN Fresh(gid, title) ELSE heap[p]],
             o, ts, e)

\* line 44: self.state = GameState()
Init ==
    /\ live = 1
    /\ heap = (1 :> Fresh(None, DefaultTitle))
    /\ tasks = EmptyBag
    /\ ev = Event("init", "init", "none", 0, TRUE, Idle, NoState, NoMsg)

(* ---------------------------- announce_game ---------------------------- *)
\* lines 85-94: no argument, or a group number that is no integer
AnnounceRejected == Reply("announce_game", "usage")

\* lines 96-98: the state is replaced, then the announcement is awaited
AnnounceGame ==
    \E gid \in Groups, title \in Titles :
        /\ HasFreeSlot
        /\ LET me == [Handler("announce_game") EXCEPT !.pc = "send_announce"]
           IN  Rebind(Spawn(me), gid, title,
                      Event("announce_game", "check", "suspended", 0, FALSE,
                            Handler("announce_game"), NoState, NoMsg))

\* line 98 returns (then line 99 replies) or raises
AnnounceSent ==
    \E me \in InFlight, ok \in BOOLEAN :
        /\ me.pc = "send_announce"
        /\ End(me, IF ok THEN "announced" ELSE "raised")

(* ------------------------------ register ------------------------------- *)
\* lines 108-120; no await before the yield
RegisterBy(uid, chan) ==
    LET s == heap[live]
    IN  IF ~Bound(s) THEN Reply("register", "no_activity")
        ELSE IF ~IsGroupEvent(chan) \/ chan # s.group_id
        THEN Reply("register", "wrong_group")
        ELSE Step([heap EXCEPT ![live] = RegisterUser(s, uid)], live, tasks,
                  Event("register", "check", "registered", uid, TRUE,
                        Handler("register"), s, NoMsg))

Register == \E uid \in Users, chan \in Channels : RegisterBy(uid, chan)

(* ------------------- _start_next_round and its sends ------------------- *)
\* lines 152-164 run by suspended handler `me` (or by none yet: Idle) on
\* self.state: the round is opened and the prompt awaited; `s` of
\* _start_next_round is the object that is live now
BeginStep(me, h, res) ==
    /\ h[live].round_index < MaxRound
    /\ LET mine == [me EXCEPT !.pc = "send_prompt", !.s = live]
       IN  Step([h EXCEPT ![live] = BeginRound(h[live])], live, Move(me, mine),
                Event(me.kind, me.pc, res, 0, FALSE, me, NoState, NoMsg))

\* the for loop of lines 167-171 asks its set iterator for the next uid: the
\* iterator raises RuntimeError when s.registered changed size since the loop
\* began, ends the loop when nothing is left, and else yields a uid, whose
\* reminder is awaited
NextReminder(me, n, left, res) ==
    LET now == Cardinality(heap[me.s].registered)
    IN  IF now # n THEN End(me, "raised_set_changed")
        ELSE IF left = {} THEN End(me, "done")
        ELSE Step(heap, live,
                  Move(me, [me EXCEPT !.pc = "send_reminder", !.todo = left, !.n = n]),
                  Event(me.kind, me.pc, res, 0, FALSE, me, NoState, NoMsg))

\* line 164 returns or raises
PromptSent ==
    \E me \in InFlight, ok \in BOOLEAN :
        /\ me.pc = "send_prompt"
        /\ IF ok
           THEN LET reg == heap[me.s].registered
                IN  NextReminder(me, Cardinality(reg), reg, "sent")
           ELSE End(me, "raised")

\* line 169 returns, or raises and is caught at line 170; the uid served is
\* the smallest one left
ReminderSent ==
    \E me \in InFlight, ok \in BOOLEAN :
        /\ me.pc = "send_reminder"
        /\ LET u == CHOOSE x \in me.todo : \A y \in me.todo : x <= y
           IN  NextReminder(me, me.n, me.todo \ {u},
                            IF ok THEN "reminded" ELSE "reminder_failed")

(* ----------------------------- start_game ------------------------------ *)
\* lines 129-147: the checks, the flags, then the start message is awaited.
\* chan is the channel of the event, which start_game never reads
StartGameIn(chan, arg) ==
    LET s == heap[live]
    IN  IF ~Bound(s) THEN Reply("start_game", "no_announcement")
        ELSE IF s.running THEN Reply("start_game", "already_running")
        ELSE IF Cardinality(s.registered) < 1 THEN Reply("start_game", "no_players")
        ELSE /\ HasFreeSlot
             /\ LET me == [Handler("start_game") EXCEPT !.pc = "send_start"]
                IN  Step([heap EXCEPT ![live] = StartFlags(s, arg)], live, Spawn(me),
                         Event("start_game", "check", "suspended", 0, FALSE,
                               Handler("start_game"), NoState, NoMsg))

StartGame == \E chan \in Channels, arg \in RoundArgs : StartGameIn(chan, arg)

\* line 147 returns, and line 148 opens round 1, or raises
StartSent ==
    \E me \in InFlight, ok \in BOOLEAN :
        /\ me.pc = "send_start"
        /\ IF ok THEN BeginStep(me, heap, "sent") ELSE End(me, "raised")

(* ---------------------------- /A /a /B /b ------------------------------ *)
\* lines 174-188: choose_A is a coroutine that awaits self._handle_choice(...).
\* _handle_choice contains yield, so calling it returns an async generator
\* without running any of its body, and awaiting an async generator raises
\* TypeError: no line of HandleChoice is ever executed
ChooseBy(uid, chan, choice) ==
    LET agen == HandleChoice(heap[live], uid, chan, choice)    \* created, never run
    IN  Reply("choose", "raised_type_error")

Choose == \E uid \in Users, chan \in Channels, choice \in Labels : ChooseBy(uid, chan, choice)

(* ----------------------------- _finish_game ---------------------------- *)
\* lines 283-295 run by handler `me`, the other suspended handlers being ts, on
\* self.state: the flags are cleared and the final ranking awaited; `s` of
\* _finish_game is the object that is live now
FinishStep(me, ts, h, e) ==
    Step([h EXCEPT ![live] = FinishFlags(h[live])], live,
         ts (+) SetToBag({[me EXCEPT !.pc = "send_final", !.s = live]}), e)

\* line 290/295 returns, and lines 298-299 rebind self.state to a fresh
\* GameState keeping s.group_id and s.title, or raises
FinalSent ==
    \E me \in InFlight, ok \in BOOLEAN :
        /\ me.pc = "send_final"
        /\ IF ok
           THEN Rebind(Retire(me), heap[me.s].group_id, heap[me.s].title,
                       Event(me.kind, me.pc, "finished", 0, TRUE, me, NoState, NoMsg))
           ELSE End(me, "raised")

(* ------------------------------ end_round ------------------------------ *)
\* lines 211-216 and 251-279: the check, the settlement, then the summary is
\* awaited.  chan is the channel of the event, which end_round never reads
EndRoundIn(chan) ==
    LET s == heap[live]
    IN  IF ~s.running \/ ~s.in_round THEN Reply("end_round", "no_round")
        ELSE /\ HasFreeSlot
             /\ LET me == [Handler("end_round") EXCEPT
                              !.pc = "send_settle", !.s = live, !.settled = 1]
                IN  Step([heap EXCEPT ![live] = SettleRound(s)], live, Spawn(me),
                         Event("end_round", "check", "suspended", 0, FALSE, me, s,
                               SettleMsg(s)))

EndRound == \E chan \in Channels : EndRoundIn(chan)

\* line 279 returns to end_round, and lines 219-236 decide what follows, or
\* raises
RoundSettled ==
    \E me \in InFlight, ok \in BOOLEAN :
        /\ me.kind = "end_round"
        /\ me.pc = "send_settle"
        /\ LET next == Continuation(heap[me.s], heap[live])
           IN  IF ~ok THEN End(me, "raised")
               ELSE IF next = "overtime"
               THEN Step([heap EXCEPT ![me.s].overtime = TRUE], live,
                         Move(me, [me EXCEPT !.pc = "send_overtime", !.s = 0]),
                         Event("end_round", me.pc, "overtime", 0, FALSE, me, NoState, NoMsg))
               ELSE IF next = "begin" THEN BeginStep(me, heap, "begin")
               ELSE FinishStep(me, Retire(me), heap,
                               Event("end_round", me.pc, "finish", 0, FALSE, me,
                                     NoState, NoMsg))

\* line 224 returns, and line 225 opens the first overtime round, or raises
OvertimeSent ==
    \E me \in InFlight, ok \in BOOLEAN :
        /\ me.pc = "send_overtime"
        /\ IF ok THEN BeginStep(me, heap, "sent") ELSE End(me, "raised")

(* ------------------------------ end_game ------------------------------- *)
\* lines 241-247: the check, then the settlement of an open round (and its
\* summary is awaited), or _finish_game at once.  chan is the channel of the
\* event, which end_game never reads
EndGameIn(chan) ==
    LET s == heap[live]
    IN  IF ~s.running THEN Reply("end_game", "no_game")
        ELSE /\ HasFreeSlot
             /\ LET me == Handler("end_game")
                IN  IF s.in_round
                    THEN LET mine == [me EXCEPT !.pc = "send_settle", !.settled = 1]
                         IN  Step([heap EXCEPT ![live] = SettleRound(s)], live,
                                  Spawn(mine),
                                  Event("end_game", "check", "suspended", 0, FALSE,
                                        mine, s, SettleMsg(s)))
                    ELSE FinishStep(me, tasks, heap,
                                    Event("end_game", "check", "suspended", 0, FALSE,
                                          Handler("end_game"), NoState, NoMsg))

EndGame == \E chan \in Channels : EndGameIn(chan)

\* line 279 returns to end_game, and line 247 finishes the game, or raises
GameSettled ==
    \E me \in InFlight, ok \in BOOLEAN :
        /\ me.kind = "end_game"
        /\ me.pc = "send_settle"
        /\ IF ok
           THEN FinishStep(me, Retire(me), heap,
                           Event("end_game", me.pc, "finish", 0, FALSE, me, NoState, NoMsg))
           ELSE End(me, "raised")

(* --------------------------- the specification ------------------------- *)
Next ==
    \/ AnnounceRejected
    \/ AnnounceGame
    \/ AnnounceSent
    \/ Register
    \/ StartGame
    \/ StartSent
    \/ PromptSent
    \/ ReminderSent
    \/ Choose
    \/ EndRound
    \/ RoundSettled
    \/ OvertimeSent
    \/ EndGame
    \/ GameSettled
    \/ FinalSent

Spec == Init /\ [][Next]_vars

\* the plugin while every send_group and send_private call returns: no step
\* ends a handler with the exception of a failed delivery
Delivered == ev'.res \notin {"raised", "reminder_failed"}

ReliableNext ==
    \/ AnnounceRejected /\ Delivered
    \/ AnnounceGame /\ Delivered
    \/ AnnounceSent /\ Delivered
    \/ Register /\ Delivered
    \/ StartGame /\ Delivered
    \/ StartSent /\ Delivered
    \/ PromptSent /\ Delivered
    \/ ReminderSent /\ Delivered
    \/ Choose /\ Delivered
    \/ EndRound /\ Delivered
    \/ RoundSettled /\ Delivered
    \/ OvertimeSent /\ Delivered
    \/ EndGame /\ Delivered
    \/ GameSettled /\ Delivered
    \/ FinalSent /\ Delivered

ReliableSpec == Init /\ [][ReliableNext]_vars

(* ------------------- one command on any state of a game ---------------- *)
\* register and _settle_round are functions of self.state and the command:
\* UnitSpec starts from any GameState of a bound game, in its registration
\* phase or with a round open, and runs /register, /end_round and /end_game
\* on it while no handler is suspended, and /A, /B at any time.  The open rounds carry the choices
\* that line 205 writes and the scores that lines 267-269 may have given in the
\* rounds before
Voters == 1..MaxVoter

Maps(keys, vals) == UNION {[d -> vals] : d \in SUBSET keys}

UnitStates ==
    {[Fresh(1, "T") EXCEPT !.registered = reg, !.scores = [u \in reg |-> 0]] :
        reg \in SUBSET Voters}
    \cup
    {[Fresh(1, "T") EXCEPT !.registered = DOMAIN sc, !.scores = sc, !.choices = ch,
                           !.running = TRUE, !.in_round = TRUE, !.round_index = k,
                           !.total_rounds = IF o THEN 1 ELSE DefaultRounds,
                           !.overtime = o] :
        <<k, o, sc, ch>> \in
            {x \in (1..MaxRound) \X BOOLEAN \X Maps(Voters, 0..MaxScore) \X Maps(Voters, Labels) :
                /\ DOMAIN x[3] # {}
                /\ DOMAIN x[4] \subseteq DOMAIN x[3]
                /\ x[2] => x[1] >= 2
                /\ \A u \in DOMAIN x[3] : x[3][u] <= x[1] - 1}}

UnitInit ==
    /\ live = 1
    /\ \E s \in UnitStates : heap = (1 :> s)
    /\ tasks = EmptyBag
    /\ ev = Event("init", "init", "none", 0, TRUE, Idle, NoState, NoMsg)

UnitNext ==
    \/ tasks = EmptyBag /\ (Register \/ EndRound \/ EndGame)
    \/ Choose

UnitSpec == UnitInit /\ [][UnitNext]_vars

(* -------------------------------- claims ------------------------------- *)
Live == heap[live]

\* the step just taken ran _settle_round (from end_round or end_game)
JustSettled == ev.at = "check" /\ ev.res = "suspended" /\ ev.settled = 1

\* handler `me` took this step
Resumed(me) == CopiesIn(me, tasks') < CopiesIn(me, tasks)

\* C1: when the tally of a settled round is tied (0 == 0 included), the winner
\* announced and credited is A in an odd round and B in an even round, in
\* regular and overtime rounds alike
C1_TieDecidedByParity ==
    (JustSettled /\ Tally(ev.pre.choices, "A") = Tally(ev.pre.choices, "B")) =>
        LET w == IF ev.pre.round_index % 2 = 1 THEN "A" ELSE "B"
        IN  /\ ev.msg.winner = w
            /\ \A u \in DOMAIN ev.pre.choices :
                  Live.scores[u] = ev.pre.scores[u] + (IF ev.pre.choices[u] = w THEN 1 ELSE 0)

\* C1 witness: an even overtime round with one vote each was settled for B
C1_Witness ==
    /\ JustSettled
    /\ ev.pre.overtime
    /\ ev.pre.round_index % 2 = 0
    /\ Tally(ev.pre.choices, "A") = 1
    /\ Tally(ev.pre.choices, "B") = 1
    /\ ev.msg.winner = "B"

\* C2: when the tally is not tied, the winner is the label with the strictly
\* smaller count, every participant whose choice is the winner gains exactly 1
\* and every other score is unchanged
C2_MinorityWinsAndIsCredited ==
    LET a == Tally(ev.pre.choices, "A")
        b == Tally(ev.pre.choices, "B")
        w == ev.msg.winner
    IN  (JustSettled /\ a # b) =>
            /\ (a < b => w = "A")
            /\ (b < a => w = "B")
            /\ DOMAIN Live.scores = DOMAIN ev.pre.scores
            /\ \A u \in DOMAIN ev.pre.scores :
                  Live.scores[u] =
                      IF u \in DOMAIN ev.pre.choices /\ ev.pre.choices[u] = w
                      THEN ev.pre.scores[u] + 1 ELSE ev.pre.scores[u]

\* C2 witness: one A against two B was settled, A won and its voter, who had
\* a point, has two
C2_Witness ==
    /\ JustSettled
    /\ Tally(ev.pre.choices, "A") = 1
    /\ Tally(ev.pre.choices, "B") = 2
    /\ ev.msg.winner = "A"
    /\ \E u \in DOMAIN ev.pre.choices :
          ev.pre.choices[u] = "A" /\ ev.pre.scores[u] = 1 /\ Live.scores[u] = 2

\* C3: an end_round of the regular phase that resumes after its settlement
\* begins the next round (overtime still false) while rounds are left, enters
\* overtime and then begins a round with round_index one higher when at least
\* two participants share the top score, and finishes the game without
\* overtime when there is a single leader
C3_RegularContinuation ==
    [][\A me \in InFlight :
          (me.kind = "end_round" /\ Resumed(me)) =>
              /\ (me.pc = "send_settle" /\ ~heap[me.s].overtime) =>
                    LET s == heap[me.s]
                        tops == Cardinality(Leaders(Live))
                    IN  /\ s.round_index < s.total_rounds =>
                              /\ heap'[live'].in_round
                              /\ ~heap'[live'].overtime
                              /\ heap'[live'].round_index = s.round_index + 1
                        /\ (s.round_index >= s.total_rounds /\ tops >= 2) =>
                              /\ heap'[live'].overtime
                              /\ \E q \in BagToSet(tasks') : q.pc = "send_overtime"
                        /\ (s.round_index >= s.total_rounds /\ tops = 1) =>
                              /\ ~heap'[live'].running
                              /\ ~heap'[live'].overtime
              /\ me.pc = "send_overtime" =>
                    /\ heap'[live'].overtime
                    /\ heap'[live'].in_round
                    /\ heap'[live'].round_index = Live.round_index + 1]_vars

\* C4: an end_round of an overtime round that resumes after its settlement
\* begins another overtime round (round_index one higher, in_round true) while
\* at least two participants share the top score, and finishes the game once
\* exactly one holds it
C4_SuddenDeath ==
    [][\A me \in InFlight :
          (me.kind = "end_round" /\ Resumed(me) /\ me.pc = "send_settle"
              /\ heap[me.s].overtime) =>
              LET tops == Cardinality(Leaders(Live))
              IN  /\ tops >= 2 =>
                        /\ heap'[live'].in_round
                        /\ heap'[live'].overtime
                        /\ heap'[live'].round_index = heap[me.s].round_index + 1
                  /\ tops = 1 => ~heap'[live'].running]_vars

\* C5: an end_game that found a round open settles it exactly once and, when
\* the handler has ended, the game is finished: running and in_round are false
C5_ForceEndFinishes ==
    (ev.kind = "end_game" /\ ev.last /\ ev.settled >= 1) =>
        /\ ev.settled = 1
        /\ ~Live.running
        /\ ~Live.in_round

\* C6: between commands (no handler suspended), in_round implies running
C6_InRoundImpliesRunning ==
    (tasks = EmptyBag /\ Live.in_round) => Live.running

\* C7: between commands (no handler suspended), overtime implies
\* round_index > total_rounds
C7_OvertimeBeyondTotal ==
    (tasks = EmptyBag /\ Live.overtime) => Live.round_index > Live.total_rounds

\* C8: while a handler that passed its checks still has state writes ahead
\* (it is suspended at the start message, a settlement summary, the overtime
\* notice or the final ranking), no step of another handler changes
\* self.state or rebinds it
C8_Serialized ==
    [][\A me \in InFlight :
          (me.pc \in {"send_start", "send_settle", "send_overtime", "send_final"}
              /\ ~Resumed(me)) =>
              (live' = live /\ heap'[live'] = heap[live])]_vars

\* C9: /A or /B sent privately by a registered participant while a round is
\* open is answered as recorded and leaves choices[uid] = the value sent, no
\* other entry changed
C9_ChoiceRecorded ==
    [][\A uid \in Users, choice \in Labels :
          (ChooseBy(uid, None, choice) /\ Live.running /\ Live.in_round
              /\ uid \in Live.registered) =>
              /\ ev'.res = "recorded"
              /\ DOMAIN heap'[live'].choices = DOMAIN Live.choices \cup {uid}
              /\ heap'[live'].choices[uid] = choice
              /\ \A u \in DOMAIN Live.choices \ {uid} :
                    heap'[live'].choices[u] = Live.choices[u]]_vars

\* C10: /register sent in the bound group succeeds; it adds the sender with
\* score 0 (the registered set grows by exactly 1) when the sender is new, and
\* changes nothing, the sender's score included, when already registered
C10_RegisterIdempotent ==
    [][\A uid \in Users :
          (Bound(Live) /\ RegisterBy(uid, Live.group_id)) =>
              /\ ev'.res = "registered"
              /\ live' = live
              /\ uid \in Live.registered => heap'[live'] = Live
              /\ uid \notin Live.registered =>
                    /\ Cardinality(heap'[live'].registered) = Cardinality(Live.registered) + 1
                    /\ heap'[live'] =
                          [Live EXCEPT !.registered = @ \cup {uid},
                                       !.scores = [u \in DOMAIN Live.scores \cup {uid} |->
                                                      IF u = uid THEN 0 ELSE Live.scores[u]]]]_vars

\* C10 witness: a participant holding a point registered again in mid-game
C10_Witness ==
    /\ ev.kind = "register"
    /\ ev.res = "registered"
    /\ ev.pre.running
    /\ ev.uid \in ev.pre.registered
    /\ ev.pre.scores[ev.uid] = 1
    /\ Live = ev.pre

\* C11: a /A or /B that is not accepted changes nothing and is answered as the
\* case requires: sent in a group it gets no reply; sent privately while no
\* round is open it is answered "not in submission phase"; sent privately by
\* a sender who is not registered while a round is open it is answered "not
\* registered"
C11_RejectedSubmission ==
    [][\A uid \in Users, chan \in Channels, choice \in Labels :
          (ChooseBy(uid, chan, choice) /\
              (IsGroupEvent(chan) \/ ~Live.running \/ ~Live.in_round
                  \/ uid \notin Live.registered)) =>
              /\ live' = live
              /\ heap' = heap
              /\ tasks' = tasks
              /\ IsGroupEvent(chan) =>
                    ev'.res \notin {"not_in_phase", "not_registered", "recorded"}
              /\ (~IsGroupEvent(chan) /\ ~(Live.running /\ Live.in_round)) =>
                    ev'.res = "not_in_phase"
              /\ (~IsGroupEvent(chan) /\ Live.running /\ Live.in_round
                      /\ uid \notin Live.registered) =>
                    ev'.res = "not_registered"]_vars

\* C12: /start_game, /end_round and /end_game arriving from any channel other
\* than the bound group (a private chat, another group) leave self.state as it
\* was and start no handler
C12_OnlyFromBoundChannel ==
    [][\A chan \in Channels :
          (chan # Live.group_id /\
              ((\E arg \in RoundArgs : StartGameIn(chan, arg))
                  \/ EndRoundIn(chan) \/ EndGameIn(chan))) =>
              /\ live' = live
              /\ heap' = heap
              /\ tasks' = tasks]_vars

\* C13: /start_game is accepted exactly when a group is bound, no game is
\* running and someone is registered; a /start_game that is not accepted
\* leaves self.state, total_rounds included, as it was; an accepted one, once
\* its start message has been handed over, leaves running true, overtime
\* false, round_index 1, in_round true and choices empty
C13_StartContract ==
    [][/\ \A chan \in Channels, arg \in RoundArgs :
             StartGameIn(chan, arg) =>
                 LET fit == Bound(Live) /\ ~Live.running /\ Live.registered # {}
                 IN  /\ fit <=> ev'.res = "suspended"
                     /\ ~fit => (live' = live /\ heap' = heap)
       /\ \A me \in InFlight :
             (me.pc = "send_start" /\ Resumed(me)) =>
                 /\ heap'[live'].running
                 /\ ~heap'[live'].overtime
                 /\ heap'[live'].round_index = 1
                 /\ heap'[live'].in_round
                 /\ heap'[live'].choices = EmptyMap]_vars

\* C14: an accepted /start_game leaves total_rounds at the count asked for
\* when that is a positive integer and at 5 otherwise (none given, or 0), and
\* an end_round that leaves the regular phase (for overtime or the finish)
\* does so when round_index equals total_rounds
C14_TotalRoundsPositive ==
    [][/\ \A chan \in Channels, arg \in RoundArgs :
             (StartGameIn(chan, arg) /\ ev'.res = "suspended") =>
                 /\ heap'[live'].total_rounds >= 1
                 /\ heap'[live'].total_rounds = IF arg >= 1 THEN arg ELSE DefaultRounds
       /\ \A me \in InFlight :
             (me.kind = "end_round" /\ me.pc = "send_settle" /\ Resumed(me)
                 /\ ~heap[me.s].overtime /\ ev'.res \in {"overtime", "finish"}) =>
                 heap[me.s].round_index = heap[me.s].total_rounds]_vars

\* C15: when _finish_game is through with its final ranking, self.state is a
\* GameState that keeps the group_id and title of the finished game and has
\* every other field at its default
C15_FinishKeepsOnlyBinding ==
    [][\A me \in InFlight :
          (me.pc = "send_final" /\ Resumed(me)) =>
              heap'[live'] = Fresh(heap[me.s].group_id, heap[me.s].title)]_vars

\* C16: no step on the same GameState lowers a score or raises it by more
\* than 1, no score entry disappears, and every score is at least 0
C16_ScoresMonotonic ==
    [][live' = live =>
          /\ \A u \in DOMAIN Live.scores :
                /\ u \in DOMAIN heap'[live'].scores
                /\ heap'[live'].scores[u] >= Live.scores[u]
                /\ heap'[live'].scores[u] <= Live.scores[u] + 1
          /\ \A u \in DOMAIN heap'[live'].scores : heap'[live'].scores[u] >= 0]_vars

\* C16 witness: a settlement gave one participant a first point and left
\* another, who voted for the losing label, at the point already held
C16_Witness ==
    /\ JustSettled
    /\ \E u, v \in DOMAIN ev.pre.choices :
          /\ ev.pre.choices[u] = ev.msg.winner
          /\ ev.pre.scores[u] = 0
          /\ Live.scores[u] = 1
          /\ ev.pre.choices[v] # ev.msg.winner
          /\ ev.pre.scores[v] = 1
          /\ Live.scores[v] = 1

\* C17: a handler resumed from a send completes its transition whether the
\* send returned or raised: after the start message or the overtime notice the
\* next round is open, after a settlement summary end_round has decided what
\* follows and end_game has cleared running, after the final ranking
\* self.state is reset, and after a reminder the loop goes on to the
\* participants left
C17_FireAndForget ==
    [][\A me \in InFlight :
          Resumed(me) =>
              /\ me.pc \in {"send_start", "send_overtime"} =>
                    /\ heap'[live'].in_round
                    /\ heap'[live'].round_index = Live.round_index + 1
              /\ (me.pc = "send_settle" /\ me.kind = "end_round") =>
                    ev'.res \in {"overtime", "begin", "finish"}
              /\ (me.pc = "send_settle" /\ me.kind = "end_game") =>
                    ~heap'[live'].running
              /\ me.pc = "send_final" => ev'.res = "finished"
              /\ (me.pc = "send_reminder" /\ Cardinality(me.todo) > 1
                      /\ Cardinality(heap[me.s].registered) = me.n) =>
                    \E q \in BagToSet(tasks') :
                        /\ q.pc = "send_reminder"
                        /\ q.todo # me.todo
                        /\ q.todo \subseteq me.todo]_vars

\* C18: a settlement closes the round in the step that counts the votes (no
\* await in between), its tallies add up to the number of entries of choices,
\* it credits exactly the entries equal to the winner of that tally and leaves
\* choices as they were; a /A or /B arriving once the round is closed changes
\* neither choices nor scores
C18_SettlementSnapshot ==
    [][/\ \A chan \in Channels :
             ((EndRoundIn(chan) \/ EndGameIn(chan)) /\ Live.running /\ Live.in_round) =>
                 LET new == heap'[live']
                     won == {u \in DOMAIN Live.choices : Live.choices[u] = ev'.msg.winner}
                 IN  /\ live' = live
                     /\ ~new.in_round
                     /\ ev'.msg.a + ev'.msg.b = Cardinality(DOMAIN Live.choices)
                     /\ ev'.msg.winner = Winner(ev'.msg.a, ev'.msg.b, Live.round_index)
                     /\ new.choices = Live.choices
                     /\ {u \in DOMAIN new.scores : new.scores[u] # ScoreOf(Live.scores, u)} = won
                     /\ \A u \in won : new.scores[u] = ScoreOf(Live.scores, u) + 1
       /\ \A uid \in Users, chan \in Channels, choice \in Labels :
             (ChooseBy(uid, chan, choice) /\ ~Live.in_round) =>
                 (live' = live /\ heap' = heap)]_vars

\* C18 witness: a /A or /B arrived while a settlement that counted votes was
\* suspended at its summary
C18_Witness ==
    /\ ev.kind = "choose"
    /\ ~Live.in_round
    /\ Live.choices # EmptyMap
    /\ \E me \in InFlight : me.pc = "send_settle"

\* C19: while every send returns, between commands (no handler suspended)
\* running and in_round are equal
C19_RunningEqualsInRound ==
    tasks = EmptyBag => (Live.running <=> Live.in_round)

\* C20: the keys of scores are the registered participants in every state;
\* an end_round that ends the regular phase with at least two registered
\* participants and no point given enters overtime; and the ranking
\* _finish_game sends is never empty
C20_ScoresCoverRegistered ==
    [][/\ DOMAIN heap'[live'].scores = heap'[live'].registered
       /\ \A me \in InFlight :
             (me.kind = "end_round" /\ me.pc = "send_settle" /\ Resumed(me)
                 /\ ev'.res # "raised"
                 /\ ~heap[me.s].overtime
                 /\ heap[me.s].round_index >= heap[me.s].total_rounds
                 /\ Cardinality(Live.registered) >= 2
                 /\ \A u \in DOMAIN Live.scores : Live.scores[u] = 0) =>
                 ev'.res = "overtime"
       /\ \A q \in BagToSet(tasks') :
             (q.pc = "send_final" /\ q.s = live') =>
                 heap'[live'].scores # EmptyMap]_vars
====
